---- MODULE Spec2Model ----
(***************************************************************************)
(* Channel-based render dispatcher of rs-pathtracing:                      *)
(*   renderer/step_by_step.rs  ThreadPoolRenderer (the controller side)    *)
(*   renderer/mod.rs           new_dispatcher_thread, new_worker_thread    *)
(*   camera/ray_caster.rs      MultisamplerRayCaster (pixel order)         *)
(*                                                                         *)
(* A colour is abstracted to the number of the render that computed it     *)
(* (0 is the value the buffer held before the first render).  Fields and   *)
(* variables marked "history" are never read by an action's guard or by    *)
(* the program state it computes; they record what happened so that the    *)
(* properties can speak about it.                                          *)
(***************************************************************************)
EXTENDS Integers, Sequences, FiniteSets, TLC

\* ------------------------------------------------------------------ bounds
\* start_rendering is called at most MaxRenders times in a behaviour of a
\* renderer with one worker, and once in a behaviour of a renderer with more
\* (the interleavings of a second render of a pool are out of reach).
MaxRenders == 2

RendersOf(threads) == IF threads = 1 THEN MaxRenders ELSE 1

\* The mpsc channels are unbounded; the exploration keeps at most MaxQueue
\* messages in each (a sender whose channel holds MaxQueue messages is not
\* scheduled until the receiving side has taken one).
MaxQueue == 2

\* Constructor arguments <<thread_number, depth>> of ThreadPoolRenderer::new.
Configs == { <<2, 50>>, <<1, 0>> }

\* Camera image sizes <<width, height>> the host sets (Camera::set_image).
Images == { <<4, 4>>, <<2, 2>>, <<0, 4>> }

\* Camera poses (position, direction, up, right and viewport taken together).
Poses == { "pose_a", "pose_b" }

MaxOf(S) == CHOOSE m \in S : \A n \in S : n <= m

MaxThreads == MaxOf({ c[1] : c \in Configs })

\* Length of the host's colour buffer (large enough for every image).
BufferLen == MaxOf({ i[1] * i[2] : i \in Images })

Workers == 1 .. MaxThreads
Renders == 1 .. MaxRenders
Pixels  == 0 .. (BufferLen - 1)

\* ------------------------------------------------------- program constants
ChunkDivisor == 8

\* ------------------------------------------------------------------- state
VARIABLES
    thread_number,  \* ThreadPoolRenderer.thread_number
    depth,          \* ThreadPoolRenderer.depth
    is_started,     \* ThreadPoolRenderer.is_started
    num_finished,   \* ThreadPoolRenderer.num_finished
    running,        \* the bool inside ThreadPoolRenderer.parking
    buffer,         \* the host's Vec<Vector3d> handed to render_step
    input,          \* messages in the input channel (FIFO)
    output,         \* messages in the output channel (FIFO)
    dispatcher,     \* dispatcher thread of every render started so far
    worker,         \* the worker threads
    hostpc,         \* position of the controller inside start_rendering
    camera,         \* the shared Arc<RwLock<Camera>>
    host,           \* RendererState of the window loop (bin/main.rs)
    calc,           \* argument and result of the function under study
    cur,            \* history: number of start_rendering calls so far
    hist            \* history: what the calls and threads did so far

vars == << thread_number, depth, is_started, num_finished, running, buffer,
           input, output, dispatcher, worker, hostpc, camera, host, calc,
           cur, hist >>

\* ---------------------------------------------------------------- messages
\* InputDataVecOption / OutputDataVecOption.  "render" is history: the code's
\* None carries nothing and its Some carries rays or colours.
SomeMsg(r, ixs) == [tag |-> "Some", render |-> r, ixs |-> ixs]
NoneMsg(r)      == [tag |-> "None", render |-> r, ixs |-> << >>]

\* ------------------------------------------------------- pure computations
\* chunk_size of new_dispatcher_thread (u32; the products of the images
\* explored here stay far below 2^32, so no wrap-around is modelled).
ChunkSize(width, height, threads_num) ==
    ((width * height) \div threads_num) \div ChunkDivisor

\* k-th item (k from 0) of (0..height).cartesian_product(0..width): <<x, y>>.
CasterItem(k, width) == << k % width, k \div width >>

\* The closure (x, y, rays) -> (x + y * width, rays).
PixelIndex(xy, width) == xy[1] + xy[2] * width

\* Number of items the ray caster yields.
CasterLen(width, height) == width * height

Min(a, b) == IF a < b THEN a ELSE b

Count(s, x) == Cardinality({ k \in 1 .. Len(s) : s[k] = x })

\* The per-pixel counts cnt with the occurrences in ixs added (at most 2).
Tally(cnt, ixs) == [i \in Pixels |-> Min(2, cnt[i] + Count(ixs, i))]

\* Camera::set_image and the pose setters: the camera holds its pose and its
\* image size.
CameraOf(p, img) == [pose |-> p, width |-> img[1], height |-> img[2]]

\* MultisamplerRayCaster::new(camera, samples): the caster copies position,
\* right, up, left_top and pixel_resolution (the pose) and builds its
\* coordinate iterator from the camera's image size.
MultisamplerRayCasterNew(cam) ==
    [pose |-> cam.pose, width |-> cam.width, height |-> cam.height]

NoCaster == [pose |-> "none", width |-> 0, height |-> 0]

\* The chunk of the caster's items pos .. pos+chunk_size-1: the caster yields
\* (x, y) over its own image, the closure maps them with the width that
\* start_rendering passed.
ChunkVec(d) ==
    LET last == Min(d.pos + d.chunk_size, CasterLen(d.rays.width, d.rays.height))
    IN  [ k \in 1 .. (last - d.pos) |->
            PixelIndex(CasterItem(d.pos + k - 1, d.rays.width), d.width) ]

\* ------------------------------------------------------------------- Init
\* ThreadPoolRenderer::new: the fields, and thread_number workers spawned at
\* the top of their loop.  Threads beyond thread_number do not exist.
AtRecv == [pc |-> "recv", render |-> 0, ixs |-> << >>]

NewWorker(w, n) ==
    IF w <= n THEN AtRecv ELSE [AtRecv EXCEPT !.pc = "absent"]

NoDispatcher ==
    [pc |-> "none", width |-> 0, height |-> 0, chunk_size |-> 0,
     threads_num |-> 0, rays |-> NoCaster, pos |-> 0, nones |-> 0]

\* hist.stopped    stop_rendering was called since the last start_rendering
\* hist.mode       how the current render was started: "idle" (the first, or
\*                 after render_step returned true), "restart" (stop then
\*                 start before that), "overlap" (start without stop)
\* hist.ret        the last render_step call since the last start returned
\*                 true
\* hist.completed  some render_step call since the last start returned true
\* hist.writes     per pixel, the writes to buffer since the last start
\* hist.sent       per render and pixel, the batches sent that hold the index
\* hist.traced     per render and pixel, the results workers produced for it
\* hist.sentinels  per worker and render, the sentinels it received
\* hist.early      a sentinel was received while a batch of its render was
\*                 still unsent or in the input channel
\* All counts saturate at 2.
NoHistory ==
    [stopped   |-> FALSE,
     mode      |-> "idle",
     ret       |-> FALSE,
     completed |-> FALSE,
     writes    |-> [i \in Pixels |-> 0],
     sent      |-> [r \in Renders |-> [i \in Pixels |-> 0]],
     traced    |-> [r \in Renders |-> [i \in Pixels |-> 0]],
     sentinels |-> [w \in Workers |-> [r \in Renders |-> 0]],
     early     |-> FALSE]

\* The renderer used without the window loop, and with no function under
\* study.
\* host.last      history: the last call the loop made on the renderer
\* host.deferred  history: a redraw was requested while a render was in
\*                flight, and no start_rendering has served it yet
\* host.served    history: the last stop/start served such a request
NoHost ==
    [is_redraw |-> FALSE, is_finished |-> FALSE, is_high_sampling |-> FALSE,
     last |-> "none", deferred |-> FALSE, served |-> FALSE]

NoCalc == [fn |-> "none"]

InitRenderer ==
    /\ \E c \in Configs : thread_number = c[1] /\ depth = c[2]
    /\ is_started = FALSE
    /\ num_finished = 0
    /\ running = FALSE
    /\ buffer = [i \in Pixels |-> 0]
    /\ input = << >>
    /\ output = << >>
    /\ dispatcher = [r \in Renders |-> NoDispatcher]
    /\ worker = [w \in Workers |-> NewWorker(w, thread_number)]
    /\ hostpc = "idle"
    /\ \E img \in Images : camera = CameraOf("pose_a", img)
    /\ cur = 0
    /\ hist = NoHistory

Init ==
    /\ InitRenderer
    /\ host = NoHost
    /\ calc = NoCalc

\* ------------------------------------------------------- dispatcher thread
\* Every dispatcher thread spawned so far has ended.  The exploration starts
\* a render only then: two dispatcher threads never send interleaved (the
\* code allows it; the orders of two interleaved streams are out of reach).
EarlierDispatchersEnded ==
    \A r \in Renders : dispatcher[r].pc \in {"none", "done", "panicked"}

\* The spawned closure up to `rays.chunks(chunk_size)`: the ray caster is
\* built from the camera as it is now; itertools' chunks asserts size != 0,
\* so the thread panics there when chunk_size is 0 (the unwinding drops the
\* caster); an empty caster gives no chunk.
DispatcherBuild(r) ==
    /\ dispatcher[r].pc = "spawned"
    /\ dispatcher' = [dispatcher EXCEPT
            ![r].rays = IF dispatcher[r].chunk_size = 0 THEN NoCaster
                        ELSE MultisamplerRayCasterNew(camera),
            ![r].pc = IF dispatcher[r].chunk_size = 0 THEN "panicked"
                      ELSE IF CasterLen(camera.width, camera.height) = 0
                           THEN "sentinels"
                      ELSE "chunks"]
    /\ UNCHANGED << thread_number, depth, is_started, num_finished, running,
                    buffer, input, output, worker, hostpc, camera, cur, hist,
                    host, calc >>

\* One iteration of `for chunk in &rays.chunks(chunk_size)`: send Some(chunk).
DispatcherSendChunk(r) ==
    LET d    == dispatcher[r]
        vec  == ChunkVec(d)
        npos == d.pos + Len(vec)
    IN  /\ d.pc = "chunks"
        /\ Len(input) < MaxQueue
        /\ input' = Append(input, SomeMsg(r, vec))
        /\ dispatcher' = [dispatcher EXCEPT
                            ![r].pos = npos,
                            ![r].pc  = IF npos = CasterLen(d.rays.width,
                                                           d.rays.height)
                                       THEN "sentinels" ELSE "chunks"]
        /\ hist' = [hist EXCEPT !.sent[r] = Tally(@, vec)]
        /\ UNCHANGED << thread_number, depth, is_started, num_finished,
                        running, buffer, output, worker, hostpc, camera, cur,
                    host, calc >>

\* One iteration of `for _ in 0..threads_num`: send None.  After the last
\* one the closure returns and drops the caster.
DispatcherSendNone(r) ==
    LET d == dispatcher[r]
        last == d.nones + 1 = d.threads_num
    IN  /\ d.pc = "sentinels"
        /\ Len(input) < MaxQueue
        /\ input' = Append(input, NoneMsg(r))
        /\ dispatcher' = [dispatcher EXCEPT
                            ![r].nones = d.nones + 1,
                            ![r].rays  = IF last THEN NoCaster ELSE d.rays,
                            ![r].pc    = IF last THEN "done" ELSE "sentinels"]
        /\ UNCHANGED << thread_number, depth, is_started, num_finished,
                        running, buffer, output, worker, hostpc, camera, cur, hist,
                    host, calc >>

\* ----------------------------------------------------------- worker thread
\* `input_receiver.lock().unwrap().recv()` returning Ok(v): the head of the
\* input channel goes to exactly this worker.
WorkerRecv(w) ==
    /\ worker[w].pc = "recv"
    /\ input # << >>
    /\ LET m == Head(input)
       IN  /\ worker' = [worker EXCEPT ![w] =
                [pc     |-> IF m.tag = "Some" THEN "trace" ELSE "ack",
                 render |-> m.render,
                 ixs    |-> m.ixs]]
           /\ hist' = IF m.tag = "Some" THEN hist
                      ELSE [hist EXCEPT
                              !.sentinels[w][m.render] = Min(2, @ + 1),
                              !.early = @ \/
                                 (\E k \in 1 .. Len(input) :
                                     /\ input[k].tag = "Some"
                                     /\ input[k].render = m.render)
                                 \/ dispatcher[m.render].pc = "chunks"]
    /\ input' = Tail(input)
    /\ UNCHANGED << thread_number, depth, is_started, num_finished, running,
                    buffer, output, dispatcher, hostpc, camera, cur,
                    host, calc >>

\* The Some(v) arm: trace every pixel of the batch, send Some(result).
WorkerTrace(w) ==
    /\ worker[w].pc = "trace"
    /\ Len(output) < MaxQueue
    /\ output' = Append(output, SomeMsg(worker[w].render, worker[w].ixs))
    /\ worker' = [worker EXCEPT ![w] = AtRecv]
    /\ hist' = [hist EXCEPT !.traced[worker[w].render] = Tally(@, worker[w].ixs)]
    /\ UNCHANGED << thread_number, depth, is_started, num_finished, running,
                    buffer, input, dispatcher, hostpc, camera, cur,
                    host, calc >>

\* ray_color panics while the batch is traced (Cube::ray_intersect's
\* "Unexpected max_c value"): the thread ends, holding no channel mutex.
WorkerPanic(w) ==
    /\ worker[w].pc = "trace"
    /\ worker' = [worker EXCEPT ![w] = [AtRecv EXCEPT !.pc = "dead"]]
    /\ UNCHANGED << thread_number, depth, is_started, num_finished, running,
                    buffer, input, output, dispatcher, hostpc, camera, cur, hist,
                    host, calc >>

\* The None arm, first statement: send the None acknowledgement.
WorkerAck(w) ==
    /\ worker[w].pc = "ack"
    /\ Len(output) < MaxQueue
    /\ output' = Append(output, NoneMsg(worker[w].render))
    /\ worker' = [worker EXCEPT ![w].pc = "lock"]
    /\ UNCHANGED << thread_number, depth, is_started, num_finished, running,
                    buffer, input, dispatcher, hostpc, camera, cur, hist,
                    host, calc >>

\* `lock.lock()` then `cvar.wait(running)`: the mutex is free whenever the
\* controller is between actions, and wait releases it atomically.
WorkerPark(w) ==
    /\ worker[w].pc = "lock"
    /\ worker' = [worker EXCEPT ![w].pc = "wait"]
    /\ UNCHANGED << thread_number, depth, is_started, num_finished, running,
                    buffer, input, output, dispatcher, hostpc, camera, cur, hist,
                    host, calc >>

\* Condvar::wait may return without a notification (std documents spurious
\* wakeups); the worker tests nothing and goes back to recv.
WorkerSpuriousWakeup(w) ==
    /\ worker[w].pc = "wait"
    /\ worker' = [worker EXCEPT ![w] = AtRecv]
    /\ UNCHANGED << thread_number, depth, is_started, num_finished, running,
                    buffer, input, output, dispatcher, hostpc, camera, cur, hist,
                    host, calc >>

\* ------------------------------------------------------------- controller
\* stop_rendering.
StopRendering ==
    /\ hostpc = "idle"
    /\ is_started' = FALSE
    /\ hist' = [hist EXCEPT !.stopped = TRUE]
    /\ UNCHANGED << thread_number, depth, num_finished, running, buffer,
                    input, output, dispatcher, worker, hostpc, camera, cur,
                    host, calc >>

\* The camera can be read next: a start_rendering can be called, or a spawned
\* dispatcher thread has yet to build its ray caster.  Only the value a read
\* finds matters, so the exploration leaves out the writes made while no
\* read can follow directly (a later write stands for them).
CameraStillRead ==
    \/ cur < RendersOf(thread_number) /\ EarlierDispatchersEnded
    \/ \E r \in Renders : dispatcher[r].pc = "spawned"

\* A write of the shared camera by the host between two renderer calls:
\* a pose change (transfer, rotate_local, the orbit control's lookat) or
\* set_image.
CameraWrite(p, img) ==
    /\ hostpc = "idle"
    /\ CameraStillRead
    /\ CameraOf(p, img) # camera
    /\ camera' = CameraOf(p, img)
    /\ UNCHANGED << thread_number, depth, is_started, num_finished, running,
                    buffer, input, output, dispatcher, worker, hostpc, cur,
                    hist,
                    host, calc >>

\* new_dispatcher_thread as start_rendering calls it: width and height are
\* read from the camera by the caller, chunk_size is computed before the
\* spawn.
NewDispatcherThread ==
    [pc          |-> "spawned",
     width       |-> camera.width,
     height      |-> camera.height,
     chunk_size  |-> ChunkSize(camera.width, camera.height, thread_number),
     threads_num |-> thread_number,
     rays        |-> NoCaster,
     pos         |-> 0,
     nones       |-> 0]

\* The history after a start_rendering.
StartHistory ==
    [hist EXCEPT
       !.stopped = FALSE,
       !.mode = IF cur = 0 \/ hist.completed THEN "idle"
                ELSE IF hist.stopped THEN "restart" ELSE "overlap",
       !.ret = FALSE,
       !.completed = FALSE,
       !.writes = [i \in Pixels |-> 0]]

\* start_rendering up to and including the spawn of the dispatcher thread:
\* width and height are read from the camera here.
StartRendering ==
    /\ hostpc = "idle"
    /\ cur < RendersOf(thread_number)
    /\ EarlierDispatchersEnded
    /\ cur' = cur + 1
    /\ num_finished' = 0
    /\ dispatcher' = [dispatcher EXCEPT ![cur + 1] = NewDispatcherThread]
    /\ hostpc' = "notify"
    /\ hist' = StartHistory
    /\ UNCHANGED << thread_number, depth, is_started, running, buffer, input,
                    output, worker, camera,
                    host, calc >>

\* The rest of start_rendering: *running = true; cvar.notify_all().
StartNotify ==
    /\ hostpc = "notify"
    /\ running' = TRUE
    /\ worker' = [w \in Workers |->
                    IF worker[w].pc = "wait" THEN AtRecv ELSE worker[w]]
    /\ hostpc' = "idle"
    /\ UNCHANGED << thread_number, depth, is_started, num_finished, buffer,
                    input, output, dispatcher, camera, cur, hist,
                    host, calc >>

\* Mutant of WriteResults: every result lands one entry further on.
RECURSIVE WriteResultsShifted(_, _, _)
WriteResultsShifted(buf, ixs, color) ==
    IF ixs = << >> THEN buf
    ELSE WriteResultsShifted(
            [buf EXCEPT ![(Head(ixs) + 1) % BufferLen] = color],
            Tail(ixs), color)

\* `for (index, color) in results { buffer[index as usize] = color; }`
RECURSIVE WriteResults(_, _, _)
WriteResults(buf, ixs, color) ==
    IF ixs = << >> THEN buf
    ELSE WriteResults([buf EXCEPT ![Head(ixs)] = color], Tail(ixs), color)

\* The loop over output_receiver.try_iter(): st is the loop's state.
RECURSIVE Drain(_)
Drain(st) ==
    IF st.q = << >> THEN [st EXCEPT !.ret = FALSE]
    ELSE LET m == Head(st.q)
         IN  IF m.tag = "None"
             THEN IF st.nf + 1 = thread_number
                  THEN [st EXCEPT !.q = Tail(st.q), !.nf = st.nf + 1,
                                  !.ret = TRUE]
                  ELSE Drain([st EXCEPT !.q = Tail(st.q), !.nf = st.nf + 1])
             ELSE Drain([st EXCEPT
                    !.q   = Tail(st.q),
                    !.buf = WriteResults(st.buf, m.ixs, m.render),
                    !.got = st.got \o m.ixs])

\* render_step.
RenderStep ==
    /\ hostpc = "idle"
    /\ LET st == Drain([q |-> output, buf |-> buffer, nf |-> num_finished,
                        ret |-> FALSE, got |-> << >>])
       IN  /\ output' = st.q
           /\ buffer' = st.buf
           /\ num_finished' = st.nf
           /\ hist' = [hist EXCEPT
                         !.ret = st.ret,
                         !.completed = @ \/ st.ret,
                         !.writes = Tally(@, st.got)]
    /\ UNCHANGED << thread_number, depth, is_started, running, input,
                    dispatcher, worker, hostpc, camera, cur,
                    host, calc >>

\* ------------------------------------------------------------ window loop
\* RendererState::new: is_redraw and is_finished start true.
NewHost ==
    [is_redraw |-> TRUE, is_finished |-> TRUE, is_high_sampling |-> FALSE,
     last |-> "none", deferred |-> FALSE, served |-> FALSE]

InitHost ==
    /\ InitRenderer
    /\ host = NewHost
    /\ calc = NoCalc

\* Keys process_input reacts to: a camera key (A, D, W, S, LShift, LControl,
\* NumpadAdd, NumpadSubtract) and Space.
Keys == { "camera", "space" }

\* Mutant of HostRenderBegin: the test leaves out is_finished.
HostRenderBeginUnfinished ==
    /\ hostpc = "idle"
    /\ host.is_redraw
    /\ host' = [host EXCEPT !.is_redraw = FALSE, !.is_finished = FALSE,
                            !.last = "stop", !.deferred = FALSE,
                            !.served = host.deferred]
    /\ is_started' = FALSE
    /\ hostpc' = "start"
    /\ hist' = [hist EXCEPT !.stopped = TRUE]
    /\ UNCHANGED << thread_number, depth, num_finished, running, buffer,
                    input, output, dispatcher, worker, camera, calc, cur >>

\* RendererState::render: `if self.is_redraw && self.is_finished`, the two
\* flags, and the stop_rendering call.
HostRenderBegin ==
    /\ hostpc = "idle"
    /\ host.is_redraw /\ host.is_finished
    /\ host' = [host EXCEPT !.is_redraw = FALSE, !.is_finished = FALSE,
                            !.last = "stop", !.deferred = FALSE,
                            !.served = host.deferred]
    /\ is_started' = FALSE
    /\ hostpc' = "start"
    /\ hist' = [hist EXCEPT !.stopped = TRUE]
    /\ UNCHANGED << thread_number, depth, num_finished, running, buffer,
                    input, output, dispatcher, worker, camera, calc, cur >>

\* RendererState::render: the start_rendering call, up to the spawn.
HostStartRendering ==
    /\ hostpc = "start"
    /\ cur < RendersOf(thread_number)
    /\ EarlierDispatchersEnded
    /\ cur' = cur + 1
    /\ num_finished' = 0
    /\ dispatcher' = [dispatcher EXCEPT ![cur + 1] = NewDispatcherThread]
    /\ hostpc' = "notify"
    /\ host' = [host EXCEPT !.last = "start"]
    /\ hist' = StartHistory
    /\ UNCHANGED << thread_number, depth, is_started, running, buffer, input,
                    output, worker, camera, calc >>

\* RendererState::render: the rest of start_rendering.
HostStartNotify ==
    /\ hostpc = "notify"
    /\ running' = TRUE
    /\ worker' = [w \in Workers |->
                    IF worker[w].pc = "wait" THEN AtRecv ELSE worker[w]]
    /\ hostpc' = "step"
    /\ UNCHANGED << thread_number, depth, is_started, num_finished, buffer,
                    input, output, dispatcher, camera, host, calc, cur, hist >>

\* RendererState::render: `if !self.is_finished`, the render_step call
\* (straight after a start, or alone when the start branch was not taken).
HostRenderStep ==
    /\ \/ hostpc = "step"
       \/ hostpc = "idle" /\ ~host.is_finished
    /\ LET st == Drain([q |-> output, buf |-> buffer, nf |-> num_finished,
                        ret |-> FALSE, got |-> << >>])
       IN  /\ output' = st.q
           /\ buffer' = st.buf
           /\ num_finished' = st.nf
           /\ host' = [host EXCEPT !.is_finished = st.ret, !.last = "step"]
           /\ hist' = [hist EXCEPT
                         !.ret = st.ret,
                         !.completed = @ \/ st.ret,
                         !.writes = Tally(@, st.got)]
    /\ hostpc' = "idle"
    /\ UNCHANGED << thread_number, depth, is_started, running, input,
                    dispatcher, worker, camera, calc, cur >>

\* RendererState::process_input with the keys pressed: a camera key writes
\* the camera and asks for a redraw; Space toggles is_high_sampling and asks
\* for a redraw when it turns it on.  (A request is explored only while the
\* start it leads to is within MaxRenders.)
HostProcessInput(keys, p) ==
    LET redraw == "camera" \in keys
                  \/ ("space" \in keys /\ ~host.is_high_sampling)
    IN  /\ hostpc = "idle"
        /\ keys # {}
        /\ p # camera.pose
        /\ redraw => (host.is_redraw \/ cur < RendersOf(thread_number))
        /\ camera' = IF "camera" \in keys THEN [camera EXCEPT !.pose = p]
                      ELSE camera
        /\ host' = [host EXCEPT
                      !.is_redraw = @ \/ redraw,
                      !.is_high_sampling = IF "space" \in keys THEN ~@ ELSE @,
                      !.deferred = @ \/ (redraw /\ cur > 0
                                            /\ ~host.is_finished)]
        /\ UNCHANGED << thread_number, depth, is_started, num_finished,
                        running, buffer, input, output, dispatcher, worker,
                        hostpc, calc, cur, hist >>

\* -------------------------------------------------------------------- Next
DispatcherStep(r) ==
    \/ DispatcherBuild(r)
    \/ DispatcherSendChunk(r)
    \/ DispatcherSendNone(r)

WorkerStep(w) ==
    \/ WorkerRecv(w)
    \/ WorkerTrace(w)
    \/ WorkerPanic(w)
    \/ WorkerAck(w)
    \/ WorkerPark(w)
    \/ WorkerSpuriousWakeup(w)

Next ==
    \/ \E r \in Renders : DispatcherStep(r)
    \/ \E w \in Workers : WorkerStep(w)
    \/ StopRendering
    \/ \E p \in Poses : \E img \in Images : CameraWrite(p, img)
    \/ StartRendering
    \/ StartNotify
    \/ RenderStep

Spec == Init /\ [][Next]_vars

\* The renderer driven by the window loop.
HostStep ==
    \/ HostRenderBegin
    \/ HostStartRendering
    \/ HostStartNotify
    \/ HostRenderStep
    \/ \E keys \in SUBSET Keys : \E p \in Poses : HostProcessInput(keys, p)

NextHost ==
    \/ \E r \in Renders : DispatcherStep(r)
    \/ \E w \in Workers : WorkerStep(w)
    \/ HostStep

SpecHost == InitHost /\ [][NextHost]_vars

\* =================================================================== shapes
\* world/shapes/mod.rs on integer geometry.  A Vector3d is a triple of
\* integers; the shapes are unit cubes moved by a translation; a ray has an
\* integer origin and a direction whose components are 1 or -1, so that every
\* f64 division the code makes is exact.  The ray parameter (RayHit.distance)
\* is the one of that direction.  A material is identified with the name of
\* the shape that holds it.

\* A scene holds at most MaxShapes shapes.
MaxShapes == 3

Translates == { <<0, 0, 0>>, <<2, 0, 0>>, <<0, 4, 0>> }
Origins    == { <<-1, -3, -3>>, <<-3, -3, -3>>, <<0, 0, 0>>, <<5, 5, 5>> }
Directions == { <<1, 1, 1>>, <<-1, -1, -1>> }

\* <<min_t, max_t>> of a query.
Ranges == { <<0, 100>>, <<1, 3>>, <<2, 2>> }

Max(a, b) == IF a > b THEN a ELSE b

\* f64 division where it is exact.
Quot(a, b) == IF b > 0 THEN a \div b ELSE -(a \div (-b))

VAdd(a, b)    == << a[1] + b[1], a[2] + b[2], a[3] + b[3] >>
VSub(a, b)    == << a[1] - b[1], a[2] - b[2], a[3] - b[3] >>
VScale(a, t)  == << a[1] * t, a[2] * t, a[3] * t >>
VDivide(a, b) == << Quot(a[1], b[1]), Quot(a[2], b[2]), Quot(a[3], b[3]) >>
VMin(a, b)    == << Min(a[1], b[1]), Min(a[2], b[2]), Min(a[3], b[3]) >>
VMax(a, b)    == << Max(a[1], b[1]), Max(a[2], b[2]), Max(a[3], b[3]) >>
MinComponent(v) == Min(Min(v[1], v[2]), v[3])
MaxComponent(v) == Max(Max(v[1], v[2]), v[3])

\* AABB { min_p, max_p }.
AABB(lo, hi) == [min_p |-> lo, max_p |-> hi]

\* AABB::ray_hit.
AabbRayHit(bb, ray, min_t, max_t) ==
    LET t_lower   == VDivide(VSub(bb.min_p, ray.origin), ray.direction)
        t_upper   == VDivide(VSub(bb.max_p, ray.origin), ray.direction)
        t_mins    == VMin(t_lower, t_upper)
        t_maxes   == VMax(t_lower, t_upper)
        t_box_min == Max(MaxComponent(t_mins), min_t)
        t_box_max == Min(MinComponent(t_maxes), max_t)
    IN  t_box_min <= t_box_max

\* Mutant of AabbMax: the upper corner of the first box only.
AabbMaxLeftOnly(a, b) == AABB(VMin(a.min_p, b.min_p), a.max_p)

\* AABB::max.
AabbMax(a, b) == AABB(VMin(a.min_p, b.min_p), VMax(a.max_p, b.max_p))

\* AABB::transform for a translation: the eight corners are moved and the
\* componentwise minimum and maximum taken.
AabbTransform(bb, translate) ==
    LET corner(i, j, k) == << (IF i = 0 THEN bb.min_p ELSE bb.max_p)[1],
                              (IF j = 0 THEN bb.min_p ELSE bb.max_p)[2],
                              (IF k = 0 THEN bb.min_p ELSE bb.max_p)[3] >>
        points == { VAdd(corner(i, j, k), translate) :
                        i \in 0 .. 1, j \in 0 .. 1, k \in 0 .. 1 }
        lo(c) == CHOOSE m \in { q[c] : q \in points } :
                    \A q \in points : m <= q[c]
        hi(c) == CHOOSE m \in { q[c] : q \in points } :
                    \A q \in points : q[c] <= m
    IN  AABB(<< lo(1), lo(2), lo(3) >>, << hi(1), hi(2), hi(3) >>)

\* Option<RayHit>: None, and Some(hit) with its distance, point and material.
NoHit == [some |-> FALSE, distance |-> 0, point |-> <<0, 0, 0>>,
          material |-> "none"]

RayHitNew(point, distance, material) ==
    [some |-> TRUE, distance |-> distance, point |-> point,
     material |-> material]

\* Cube::new: the cube -1 .. 1 with a transform and a material.
Cube(name, translate) ==
    [kind |-> "cube", name |-> name, translate |-> translate,
     min_p |-> <<-1, -1, -1>>, max_p |-> <<1, 1, 1>>]

\* Cube::ray_intersect (ray in the cube's own space).
CubeRayIntersect(cube, ray, min_t, max_t) ==
    LET t_lower   == VDivide(VSub(cube.min_p, ray.origin), ray.direction)
        t_upper   == VDivide(VSub(cube.max_p, ray.origin), ray.direction)
        t_mins    == VMin(t_lower, t_upper)
        t_maxes   == VMax(t_lower, t_upper)
        t_box_min == Max(MaxComponent(t_mins), min_t)
        t_box_max == Min(MinComponent(t_maxes), max_t)
    IN  IF t_box_min > t_box_max \/ t_box_min > max_t THEN NoHit
        ELSE RayHitNew(VAdd(ray.origin, VScale(ray.direction, t_box_min)),
                       t_box_min, cube.name)

\* InversableTransform::inverse_transform_ray for a translation.
InverseTransformRay(translate, ray) ==
    [origin |-> VSub(ray.origin, translate), direction |-> ray.direction]

\* Shape::ray_hit_transformed of a cube: the ray goes to the cube's space,
\* the hit point comes back.
CubeRayHit(cube, ray, min_t, max_t) ==
    LET ret == CubeRayIntersect(cube, InverseTransformRay(cube.translate, ray),
                                min_t, max_t)
    IN  IF ret.some
        THEN [ret EXCEPT !.point = VAdd(ret.point, cube.translate)]
        ELSE NoHit

\* get_bounding_box of a cube and of a BvhNode.
GetBoundingBox(shape) ==
    IF shape.kind = "cube"
    THEN AabbTransform(AABB(shape.min_p, shape.max_p), shape.translate)
    ELSE shape.bounding_box

NoShape == [kind |-> "none"]

\* BvhNode::ray_hit and BvhNode::ray_intersect (a BvhNode has no transform),
\* and the ray_hit of the leaves.
RECURSIVE ShapeRayHit(_, _, _, _)
ShapeRayHit(shape, ray, min_t, max_t) ==
    IF shape.kind = "cube" THEN CubeRayHit(shape, ray, min_t, max_t)
    ELSE IF ~AabbRayHit(shape.bounding_box, ray, min_t, max_t) THEN NoHit
    ELSE LET left_hit == ShapeRayHit(shape.left, ray, min_t, max_t)
         IN  IF shape.right.kind # "none"
             THEN IF left_hit.some
                  THEN LET right_hit == ShapeRayHit(shape.right, ray, min_t,
                                                    left_hit.distance)
                       IN  IF right_hit.some THEN right_hit ELSE left_hit
                  ELSE ShapeRayHit(shape.right, ray, min_t, max_t)
             ELSE left_hit

\* ShapeCollection::ray_intersect: the loop from shape k on, with the
\* loop's min_distance and min_hit.
RECURSIVE ShapeCollectionScan(_, _, _, _, _, _)
ShapeCollectionScan(shapes, k, ray, min_t, min_distance, min_hit) ==
    IF k > Len(shapes) THEN min_hit
    ELSE LET hit == ShapeRayHit(shapes[k], ray, min_t, min_distance)
         IN  IF hit.some
             THEN ShapeCollectionScan(shapes, k + 1, ray, min_t,
                                      hit.distance, hit)
             ELSE ShapeCollectionScan(shapes, k + 1, ray, min_t,
                                      min_distance, min_hit)

ShapeCollectionRayIntersect(shapes, ray, min_t, max_t) ==
    ShapeCollectionScan(shapes, 1, ray, min_t, max_t, NoHit)

\* shapes.sort_by(..) of BvhNode::new on one axis: the closure answers Less
\* exactly when a's min_p is smaller on the axis, and sort_by is stable.
RECURSIVE SortByMin(_, _)
SortByMin(shapes, axis) ==
    IF shapes = << >> THEN << >>
    ELSE LET n     == Len(shapes)
             front == SortByMin(SubSeq(shapes, 1, n - 1), axis)
             key(s) == GetBoundingBox(s).min_p[axis + 1]
             \* the last element goes before the elements it is less than
             at == Cardinality({ k \in 1 .. Len(front) :
                                    ~(key(shapes[n]) < key(front[k])) })
         IN  SubSeq(front, 1, at) \o << shapes[n] >>
                \o SubSeq(front, at + 1, Len(front))

\* The axes rng.gen_range(0..2) draws.
Axes == { 0, 1 }

\* Mutant of BvhNode: the right child is dropped.
BvhNodeLeftOnly(left, right, bb) ==
    [kind |-> "bvh", left |-> left, right |-> NoShape, bounding_box |-> bb]

BvhNode(left, right, bb) ==
    [kind |-> "bvh", left |-> left, right |-> right, bounding_box |-> bb]

\* BvhNode::new: the trees it can return for the shapes (one for every
\* draw of the axes).
RECURSIVE BvhNodeNew(_)
BvhNodeNew(shapes) ==
    UNION { LET sorted == SortByMin(shapes, axis)
                n      == Len(sorted)
            IN  IF n = 1
                THEN { BvhNode(sorted[1], NoShape, GetBoundingBox(sorted[1])) }
                ELSE IF n = 2
                THEN { BvhNode(sorted[1], sorted[2],
                               AabbMax(GetBoundingBox(sorted[1]),
                                       GetBoundingBox(sorted[2]))) }
                ELSE { BvhNode(l, r, AabbMax(l.bounding_box, r.bounding_box)) :
                         l \in BvhNodeNew(SubSeq(sorted, 1, n \div 2)),
                         r \in BvhNodeNew(SubSeq(sorted, n \div 2 + 1, n)) }
          : axis \in Axes }

\* The renderer's variables while a function is studied on its own.
RendererUnused ==
    /\ thread_number = 1
    /\ depth = 0
    /\ is_started = FALSE
    /\ num_finished = 0
    /\ running = FALSE
    /\ buffer = [i \in Pixels |-> 0]
    /\ input = << >>
    /\ output = << >>
    /\ dispatcher = [r \in Renders |-> NoDispatcher]
    /\ worker = [w \in Workers |-> NewWorker(w, 1)]
    /\ hostpc = "idle"
    /\ camera = [pose |-> "pose_a", width |-> 0, height |-> 0]
    /\ host = NoHost
    /\ cur = 0
    /\ hist = NoHistory

rvars == << thread_number, depth, is_started, num_finished, running, buffer,
            input, output, dispatcher, worker, hostpc, camera, host, cur,
            hist >>

\* Scenes: the lists of 1 .. MaxShapes cubes, named by their place.
ShapeNames == << "s1", "s2", "s3", "s4", "s5" >>

Scenes ==
    UNION { { [k \in 1 .. n |-> Cube(ShapeNames[k], ts[k])] :
                ts \in [1 .. n -> Translates] } : n \in 1 .. MaxShapes }

\* Scene::new builds the tree; closest_hit queries it.  The same shapes are
\* scanned by a ShapeCollection.
InitBvh ==
    /\ RendererUnused
    /\ \E shapes \in Scenes : \E o \in Origins : \E d \in Directions :
       \E range \in Ranges :
          calc = [fn |-> "bvh", stage |-> "input", shapes |-> shapes,
                  ray |-> [origin |-> o, direction |-> d],
                  min_t |-> range[1], max_t |-> range[2],
                  tree |-> NoShape, bvh_hit |-> NoHit, scan_hit |-> NoHit]

BvhBuild ==
    /\ calc.fn = "bvh" /\ calc.stage = "input"
    /\ \E tree \in BvhNodeNew(calc.shapes) :
          calc' = [calc EXCEPT !.tree = tree, !.stage = "built"]
    /\ UNCHANGED rvars

BvhQuery ==
    /\ calc.fn = "bvh" /\ calc.stage = "built"
    /\ calc' = [calc EXCEPT
                  !.bvh_hit = ShapeRayHit(calc.tree, calc.ray, calc.min_t,
                                          calc.max_t),
                  !.scan_hit = ShapeCollectionRayIntersect(
                                  calc.shapes, calc.ray, calc.min_t,
                                  calc.max_t),
                  !.stage = "queried"]
    /\ UNCHANGED rvars

NextBvh == BvhBuild \/ BvhQuery

SpecBvh == InitBvh /\ [][NextBvh]_vars

\* =============================================================== ray_color
\* renderer/mod.rs ray_color on an abstract world.  A ray is identified with
\* the y component of its unit direction (-1, 0 or 1); a world is the set of
\* rays that hit a shape; the ray that leaves a hit point has direction
\* normal + random unit vector, any ray.  A colour is its red channel in
\* units of 1 / ColorOne.

\* ray_color is called with depth at most MaxDepth.
MaxDepth == 2

RayYs == { -1, 0, 1 }

\* The colour value 1.0: a power of two that keeps MaxDepth halvings of the
\* sky colours exact.
ColorOne == 2 ^ (MaxDepth + 2)

Black == 0

\* The None arm of ray_color: t = 0.5 * (unit_vector.y + 1.0);
\* (1.0 - t) * (1, 1, 1) + t * (0.5, 0.7, 1.0), red channel.
SkyColor(ray) ==
    LET t_twice == ray + 1
    IN  ((2 - t_twice) * ColorOne + t_twice * (ColorOne \div 2)) \div 2

\* world.closest_hit(&ray) is Some.
ClosestHitSome(world, ray) == ray \in world

\* ray_color(world, ray, depth): the colours it can return (one for every
\* draw of the random vectors).
RECURSIVE RayColor(_, _, _)
RayColor(world, ray, d) ==
    IF ClosestHitSome(world, ray)
    THEN IF d = 0 THEN { Black }
         ELSE { c \div 2 :
                  c \in UNION { RayColor(world, next, d - 1) :
                                   next \in RayYs } }
    ELSE { SkyColor(ray) }

InitRayColor ==
    /\ RendererUnused
    /\ \E world \in SUBSET RayYs : \E ray \in RayYs : \E d \in 0 .. MaxDepth :
          calc = [fn |-> "ray_color", stage |-> "input", world |-> world,
                  ray |-> ray, depth |-> d, color |-> Black]

RayColorCall ==
    /\ calc.fn = "ray_color" /\ calc.stage = "input"
    /\ \E c \in RayColor(calc.world, calc.ray, calc.depth) :
          calc' = [calc EXCEPT !.color = c, !.stage = "done"]
    /\ UNCHANGED rvars

NextRayColor == RayColorCall

SpecRayColor == InitRayColor /\ [][NextRayColor]_vars

\* ================================================== MultisamplerRayCaster
\* camera/ray_caster.rs: the caster as the iterator it is, one next() at a
\* time.  coords_iter is itertools' Product of the ranges 0..height and
\* 0..width: a_cur is the current y (NoneValue once there is none), a the
\* next y of the outer range, b the next x of the inner range.  A ray is
\* modelled by the pixel it is jittered in.

\* Images of the caster are at most MaxSide x MaxSide.
MaxSide == 3

\* samples_number is at most MaxSamples.
MaxSamples == 2

NoneValue == -1

\* (0..img_params.height).cartesian_product(0..img_params.width): the
\* product takes the first element of the outer range when it is built.
CartesianProduct(height, width) ==
    [a_cur |-> IF height > 0 THEN 0 ELSE NoneValue,
     a     |-> IF height > 0 THEN 1 ELSE 0,
     b     |-> 0]

\* Product::size_hint: a.len() * b_orig.len() + b.len() * has_cur.
ProductSizeHint(it, height, width) ==
    (height - it.a) * width
        + (width - it.b) * (IF it.a_cur # NoneValue THEN 1 ELSE 0)

\* Product::next: the iterator after the call, and the pair it returns
\* (some = FALSE for None).
ProductNext(it, height, width) ==
    IF it.b < width
    THEN [it   |-> [it EXCEPT !.b = it.b + 1],
          some |-> it.a_cur # NoneValue, a |-> it.a_cur, b |-> it.b]
    ELSE IF width = 0
         THEN [it |-> it, some |-> FALSE, a |-> NoneValue, b |-> NoneValue]
         ELSE LET a_cur == IF it.a < height THEN it.a ELSE NoneValue
              IN  [it   |-> [a_cur |-> a_cur,
                             a     |-> Min(it.a + 1, height),
                             b     |-> 1],
                   some |-> a_cur # NoneValue, a |-> a_cur, b |-> 0]

\* The samples of one item: samples_number rays through pixel (x, y).
Samples(x, y, samples_number) == [ i \in 1 .. samples_number |-> << x, y >> ]

InitCaster ==
    /\ RendererUnused
    /\ \E width \in 0 .. MaxSide : \E height \in 0 .. MaxSide :
       \E samples_number \in 0 .. MaxSamples :
          calc = [fn |-> "caster", width |-> width, height |-> height,
                  samples_number |-> samples_number,
                  coords_iter |-> CartesianProduct(height, width),
                  items |-> << >>, ended |-> FALSE]

\* Mutant of CasterNext: the pair of the product is taken as (x, y).
CasterNextSwapped ==
    /\ calc.fn = "caster" /\ ~calc.ended
    /\ LET n == ProductNext(calc.coords_iter, calc.height, calc.width)
       IN  calc' = [calc EXCEPT
              !.coords_iter = n.it,
              !.ended = ~n.some,
              !.items = IF n.some
                        THEN Append(@, [x |-> n.a, y |-> n.b,
                                        samples |-> Samples(n.a, n.b,
                                                     calc.samples_number)])
                        ELSE @]
    /\ UNCHANGED rvars

\* MultisamplerRayCaster::next: let (y, x) = self.coords_iter.next()?;
\* Some((x, y, samples)).
CasterNext ==
    /\ calc.fn = "caster" /\ ~calc.ended
    /\ LET n == ProductNext(calc.coords_iter, calc.height, calc.width)
       IN  calc' = [calc EXCEPT
              !.coords_iter = n.it,
              !.ended = ~n.some,
              !.items = IF n.some
                        THEN Append(@, [x |-> n.b, y |-> n.a,
                                        samples |-> Samples(n.b, n.a,
                                                     calc.samples_number)])
                        ELSE @]
    /\ UNCHANGED rvars

NextCaster == CasterNext

SpecCaster == InitCaster /\ [][NextCaster]_vars

\* ================================================ solve_quadratic_equation
\* algebra/equation.rs on integer coefficients whose discriminant is negative
\* or a perfect square, so that every value the function computes is exact.
\* A root is a fraction << numerator, denominator >>.

\* The coefficients are integers of magnitude at most MaxCoef.
MaxCoef == 3

Coefs == -MaxCoef .. MaxCoef

IsSquare(d) == \E r \in 0 .. d : r * r = d

\* d.sqrt() of a perfect square.
Sqrt(d) == CHOOSE r \in 0 .. d : r * r = d

NoRoots == [some |-> FALSE, x1 |-> << 0, 1 >>, x2 |-> << 0, 1 >>]

SolveQuadraticEquation(a, half_b, c) ==
    LET d == half_b * half_b - a * c
    IN  IF d < 0 THEN NoRoots
        ELSE IF d = 0
             THEN [some |-> TRUE, x1 |-> << -half_b, 1 >>,
                   x2 |-> << -half_b, 1 >>]
             ELSE [some |-> TRUE, x1 |-> << -half_b - Sqrt(d), a >>,
                   x2 |-> << -half_b + Sqrt(d), a >>]

InitEquation ==
    /\ RendererUnused
    /\ \E a \in Coefs \ { 0 } : \E half_b \in Coefs : \E c \in Coefs :
          /\ half_b * half_b - a * c < 0 \/ IsSquare(half_b * half_b - a * c)
          /\ calc = [fn |-> "equation", stage |-> "input", a |-> a,
                     half_b |-> half_b, c |-> c, roots |-> NoRoots]

SolveCall ==
    /\ calc.fn = "equation" /\ calc.stage = "input"
    /\ calc' = [calc EXCEPT
          !.roots = SolveQuadraticEquation(calc.a, calc.half_b, calc.c),
          !.stage = "done"]
    /\ UNCHANGED rvars

NextEquation == SolveCall

SpecEquation == InitEquation /\ [][NextEquation]_vars

\* ================================================================ ImageTexture
\* world/texture.rs ImageTexture::value.  Texture coordinates are multiples
\* of 1 / UvDen between -1 and 2, held as their numerators.

\* The image is at most MaxTexSide x MaxTexSide pixels.
MaxTexSide == 3

\* The texture coordinates are multiples of 1 / UvDen.
UvDen == 4

UvNums == -UvDen .. 2 * UvDen

\* f64::clamp(0.0, 1.0) on a numerator.
Clamp01(num) == Max(0, Min(num, UvDen))

\* (coordinate * side as f64) as u32, the coordinate in [0, 1].
ToPixel(num, side) == (num * side) \div UvDen

\* The pixel ImageTexture::value passes to get_pixel.
TexturePixel(u, v, width, height) ==
    LET uc == Clamp01(u)
        vc == UvDen - Clamp01(v)
    IN  [x |-> ToPixel(uc, width), y |-> ToPixel(vc, height)]

InitTexture ==
    /\ RendererUnused
    /\ \E u \in UvNums : \E v \in UvNums :
       \E width \in 1 .. MaxTexSide : \E height \in 1 .. MaxTexSide :
          calc = [fn |-> "texture", stage |-> "input", u |-> u, v |-> v,
                  width |-> width, height |-> height,
                  pixel |-> [x |-> 0, y |-> 0], panicked |-> FALSE]

\* value(u, v, p): get_pixel panics on a pixel outside the image.
TextureValue ==
    /\ calc.fn = "texture" /\ calc.stage = "input"
    /\ LET px == TexturePixel(calc.u, calc.v, calc.width, calc.height)
       IN  calc' = [calc EXCEPT
              !.pixel = px,
              !.panicked = px.x >= calc.width \/ px.y >= calc.height,
              !.stage = "done"]
    /\ UNCHANGED rvars

NextTexture == TextureValue

SpecTexture == InitTexture /\ [][NextTexture]_vars

\* ========================================================= CameraOrbitControl
\* camera/mod.rs rotate_horizontal, rotate_vertical and lookat.  Angles are
\* multiples of PI / AngleDen, held as their numerators; frac arguments are
\* multiples of 1 / AngleDen.

\* Angles and frac arguments are multiples of 1 / AngleDen (of PI).
AngleDen == 4

\* frac arguments have magnitude at most MaxFrac.
MaxFrac == 3

\* phi is followed while its magnitude is at most MaxPhi * PI.
MaxPhi == 4

Pi == AngleDen

Fracs == (-MaxFrac * AngleDen .. MaxFrac * AngleDen) \ { 0 }

\* lookat: dir = object - pos is parallel to the up vector (0, 1, 0) that it
\* sets when sin(theta) = 0.
Lookat(theta) == theta % Pi = 0

\* An orbit control with its angles in range.
InitOrbit ==
    /\ RendererUnused
    /\ \E phi \in 0 .. 2 * Pi : \E theta \in 1 .. Pi - 1 :
          calc = [fn |-> "orbit", phi |-> phi, theta |-> theta,
                  dir_parallel_up |-> Lookat(theta), last |-> "new"]

RotateHorizontal(frac) ==
    /\ calc.fn = "orbit"
    /\ LET added   == calc.phi + frac
           lowered == IF added > 2 * Pi THEN added - 2 * Pi ELSE added
           phi     == IF lowered < 0 THEN lowered + 2 * Pi ELSE lowered
       IN  /\ -MaxPhi * Pi <= phi /\ phi <= MaxPhi * Pi
           /\ calc' = [calc EXCEPT !.phi = phi,
                          !.dir_parallel_up = Lookat(calc.theta),
                          !.last = "rotate_horizontal"]
    /\ UNCHANGED rvars

RotateVertical(frac) ==
    /\ calc.fn = "orbit"
    /\ LET added == calc.theta + frac
           theta == IF added > Pi THEN Pi
                    ELSE IF added < 0 THEN 0 ELSE added
       IN  calc' = [calc EXCEPT !.theta = theta,
                       !.dir_parallel_up = Lookat(theta),
                       !.last = "rotate_vertical"]
    /\ UNCHANGED rvars

NextOrbit ==
    \/ \E frac \in Fracs : RotateHorizontal(frac)
    \/ \E frac \in Fracs : RotateVertical(frac)

SpecOrbit == InitOrbit /\ [][NextOrbit]_vars

\* ============================================================ root selection
\* Sphere::ray_intersect and Torus::ray_intersect up to the choice of the
\* hit distance.  The sphere's quadratic has integer coefficients with a
\* negative or perfect-square discriminant (a = dir * dir is positive); the
\* torus's quartic is given by the four roots solve_quantic_equation returns,
\* each an integer real part and whether approx_equal(root.im, 0.0) holds.
\* A distance is a fraction << numerator, denominator >>, denominator positive.

\* Real parts of the quartic's roots are between -1 and MaxRoot.
MaxRoot == 2

RootRanges == { << 0, 4 >>, << 1, 2 >> }

NoDistance == [some |-> FALSE, x |-> << 0, 1 >>]

\* x < t and x > t for a fraction x and an integer t.
FracBelow(x, t) == x[1] < t * x[2]
FracAbove(x, t) == x[1] > t * x[2]

\* Sphere::ray_intersect: the distance x of the hit, or none.
SphereDistance(a, half_b, c, min_t, max_t) ==
    LET d == half_b * half_b - a * c
    IN  IF d < 0 THEN NoDistance
        ELSE IF d = 0 THEN [some |-> TRUE, x |-> << -half_b * a, 1 >>]
        ELSE LET x1 == << -half_b - Sqrt(d), a >>
                 x2 == << -half_b + Sqrt(d), a >>
             IN  IF FracBelow(x1, min_t) \/ FracAbove(x1, max_t)
                 THEN IF FracBelow(x2, min_t) \/ FracAbove(x2, max_t)
                      THEN NoDistance
                      ELSE [some |-> TRUE, x |-> x2]
                 ELSE [some |-> TRUE, x |-> x1]

\* The loop of Torus::ray_intersect over roots[k..]: the least real part of a
\* real root below min_root; Infinity is f64::INFINITY.
Infinity == MaxRoot + 1
RECURSIVE TorusMinRoot(_, _, _)
TorusMinRoot(roots, k, min_root) ==
    IF k > Len(roots) THEN min_root
    ELSE TorusMinRoot(roots, k + 1,
            IF roots[k].real /\ roots[k].re < min_root
            THEN roots[k].re ELSE min_root)

\* Torus::ray_intersect: the distance min_root of the hit, or none.
TorusDistance(roots, min_t, max_t) ==
    LET min_root == TorusMinRoot(roots, 1, Infinity)
    IN  IF min_root = Infinity \/ min_root < min_t \/ min_root > max_t
        THEN NoDistance
        ELSE [some |-> TRUE, x |-> << min_root, 1 >>]

QuarticRoots ==
    { roots \in [1 .. 4 -> [re : -1 .. MaxRoot, real : BOOLEAN]] :
        Cardinality({ k \in 1 .. 4 : ~roots[k].real }) % 2 = 0 }

InitRoots ==
    /\ RendererUnused
    /\ \E range \in RootRanges :
          \/ \E a \in 1 .. MaxCoef : \E half_b \in Coefs : \E c \in Coefs :
                /\ half_b * half_b - a * c < 0
                      \/ IsSquare(half_b * half_b - a * c)
                /\ calc = [fn |-> "roots", stage |-> "input",
                           shape |-> "sphere", a |-> a, half_b |-> half_b,
                           c |-> c, roots |-> << >>, min_t |-> range[1],
                           max_t |-> range[2], hit |-> NoDistance]
          \/ \E roots \in QuarticRoots :
                calc = [fn |-> "roots", stage |-> "input",
                        shape |-> "torus", a |-> 0, half_b |-> 0, c |-> 0,
                        roots |-> roots, min_t |-> range[1],
                        max_t |-> range[2], hit |-> NoDistance]

SphereRayIntersect ==
    /\ calc.fn = "roots" /\ calc.stage = "input" /\ calc.shape = "sphere"
    /\ calc' = [calc EXCEPT
          !.hit = SphereDistance(calc.a, calc.half_b, calc.c,
                                 calc.min_t, calc.max_t),
          !.stage = "done"]
    /\ UNCHANGED rvars

TorusRayIntersect ==
    /\ calc.fn = "roots" /\ calc.stage = "input" /\ calc.shape = "torus"
    /\ calc' = [calc EXCEPT
          !.hit = TorusDistance(calc.roots, calc.min_t, calc.max_t),
          !.stage = "done"]
    /\ UNCHANGED rvars

NextRoots == SphereRayIntersect \/ TorusRayIntersect

SpecRoots == InitRoots /\ [][NextRoots]_vars

\* ============================================================ render_step_to
\* renderer/thread_pool.rs render_step_to and reset: the progressive variant,
\* one pass per call.  A pass receives one result per pixel, in any order;
\* colours are 1 or 2.  completed counts the passes that returned since the
\* last reset.

\* The progressive image has StepPixels pixels.
StepPixels == 3

\* At most MaxPasses passes are followed between two resets.
MaxPasses == 3

StepColors == { 1, 2 }

\* ThreadPoolRenderer::new: is_started: false.
InitStep ==
    /\ RendererUnused
    /\ calc = [fn |-> "step", pc |-> "idle", is_started |-> FALSE,
               buffer |-> [i \in 1 .. StepPixels |-> 0],
               pending |-> { }, completed |-> 0]

\* render_step_to up to the receive loop: the dispatcher is spawned for
\* every pixel of the image and the workers are notified.
StepBegin ==
    /\ calc.fn = "step" /\ calc.pc = "idle"
    /\ calc.completed < MaxPasses
    /\ calc' = [calc EXCEPT !.pc = "receiving",
                            !.pending = 1 .. StepPixels]
    /\ UNCHANGED rvars

\* The Some(v) arm of the receive loop, for the result of pixel i.
StepReceive(i, color) ==
    /\ calc.fn = "step" /\ calc.pc = "receiving"
    /\ i \in calc.pending
    /\ calc' = [calc EXCEPT
          !.pending = @ \ { i },
          !.buffer[i] = IF calc.is_started THEN color + @ ELSE color]
    /\ UNCHANGED rvars

\* The last None ends the loop; then `if self.is_started
\* { self.is_started = true; }` and the call returns.
StepEnd ==
    /\ calc.fn = "step" /\ calc.pc = "receiving"
    /\ calc.pending = { }
    /\ calc' = [calc EXCEPT
          !.pc = "idle",
          !.is_started = IF calc.is_started THEN TRUE ELSE @,
          !.completed = @ + 1]
    /\ UNCHANGED rvars

\* reset, between two calls.
StepReset ==
    /\ calc.fn = "step" /\ calc.pc = "idle"
    /\ calc.completed > 0
    /\ calc' = [calc EXCEPT !.is_started = FALSE, !.completed = 0]
    /\ UNCHANGED rvars

NextStep ==
    \/ StepBegin
    \/ \E i \in 1 .. StepPixels : \E color \in StepColors :
          StepReceive(i, color)
    \/ StepEnd
    \/ StepReset

SpecStep == InitStep /\ [][NextStep]_vars

\* ============================================================== Perlin::turb
\* algebra/noise.rs turb on a one-dimensional lattice: a point is an integer,
\* noise is a table of period NoisePeriod with values in NoiseValues, and a
\* weight is held in units of 1 / 2^MaxOctaves.

\* turb is called with depth at most MaxOctaves.
MaxOctaves == 3

\* Points are 1 .. MaxPoint.
MaxPoint == 3

\* The noise table repeats after NoisePeriod points.
NoisePeriod == 4

NoiseValues == { -2, -1, 1, 2 }

NoiseTables == [0 .. NoisePeriod - 1 -> NoiseValues]

\* The weight 1.0.
WeightOne == 2 ^ MaxOctaves

Abs(x) == IF x < 0 THEN -x ELSE x

\* Perlin::noise at point q.
Noise(table, q) == table[q % NoisePeriod]

\* The scan of turb from octave k on, its state (weight, temp_p): the sum of
\* the values ret it yields.
RECURSIVE TurbScan(_, _, _, _, _, _)
TurbScan(table, p, weight, temp_p, k, d) ==
    IF k >= d THEN 0
    ELSE LET ret == weight * Noise(table, p)
         IN  ret + TurbScan(table, p, weight \div 2, temp_p * 2, k + 1, d)

\* turb(p, depth): .sum::<f64>().abs().
Turb(table, p, d) == Abs(TurbScan(table, p, WeightOne, p, 0, d))

InitTurb ==
    /\ RendererUnused
    /\ \E table \in NoiseTables : \E p \in 1 .. MaxPoint :
       \E d \in 0 .. MaxOctaves :
          calc = [fn |-> "turb", stage |-> "input", table |-> table,
                  p |-> p, depth |-> d, value |-> 0]

TurbCall ==
    /\ calc.fn = "turb" /\ calc.stage = "input"
    /\ calc' = [calc EXCEPT
          !.value = Turb(calc.table, calc.p, calc.depth),
          !.stage = "done"]
    /\ UNCHANGED rvars

NextTurb == TurbCall

SpecTurb == InitTurb /\ [][NextTurb]_vars

\* ============================================================ AABB::transform
\* AABB::transform under the transforms InversableTransform::new builds.
\* A Transform is its 4 x 4 matrix; angles are whole quarter turns, so that
\* every entry is an integer.

\* cos and sin of q quarter turns.
Cos(q) == << 1, 0, -1, 0 >>[(q % 4) + 1]
Sin(q) == << 0, 1, 0, -1 >>[(q % 4) + 1]

TransformTranslate(vec) ==
    << << 1, 0, 0, vec[1] >>,
       << 0, 1, 0, vec[2] >>,
       << 0, 0, 1, vec[3] >>,
       << 0, 0, 0, 1 >> >>

TransformScale(vec) ==
    << << vec[1], 0, 0, 0 >>,
       << 0, vec[2], 0, 0 >>,
       << 0, 0, vec[3], 0 >>,
       << 0, 0, 0, 1 >> >>

RotateRoll(q) ==
    << << 1, 0, 0, 0 >>,
       << 0, Cos(q), -Sin(q), 0 >>,
       << 0, Sin(q), Cos(q), 0 >>,
       << 0, 0, 0, 1 >> >>

RotatePitch(q) ==
    << << Cos(q), 0, Sin(q), 0 >>,
       << 0, 1, 0, 0 >>,
       << -Sin(q), 0, Cos(q), 0 >>,
       << 0, 0, 0, 1 >> >>

RotateYaw(q) ==
    << << Cos(q), -Sin(q), 0, 0 >>,
       << Sin(q), Cos(q), 0, 0 >>,
       << 0, 0, 1, 0 >>,
       << 0, 0, 0, 1 >> >>

\* impl Mul<Transform> for Transform.
TransformMul(a, b) ==
    [i \in 1 .. 4 |->
        [j \in 1 .. 4 |-> a[i][1] * b[1][j] + a[i][2] * b[2][j]
                            + a[i][3] * b[3][j] + a[i][4] * b[4][j]]]

TransformRotate(vec) ==
    TransformMul(TransformMul(RotateRoll(vec[1]), RotatePitch(vec[2])),
                 RotateYaw(vec[3]))

\* The field direct of InversableTransform::new(translate, rotate, scale).
DirectTransform(translate, rotate, scale) ==
    TransformMul(TransformMul(TransformTranslate(translate),
                              TransformRotate(rotate)),
                 TransformScale(scale))

TransformPoint(m, point) ==
    << point[1] * m[1][1] + point[2] * m[1][2] + point[3] * m[1][3] + m[1][4],
       point[1] * m[2][1] + point[2] * m[2][2] + point[3] * m[2][3] + m[2][4],
       point[1] * m[3][1] + point[2] * m[3][2] + point[3] * m[3][3] + m[3][4] >>

\* Vector3d::infinity() and Vector3d::neg_infinity(): every component the
\* infinity of that sign, here a number beyond every coordinate.
VInfinity == << 2 ^ 20, 2 ^ 20, 2 ^ 20 >>
VNegInfinity == << -(2 ^ 20), -(2 ^ 20), -(2 ^ 20) >>

\* The points of AABB::transform, in the order they are pushed: self[i].x,
\* self[j].y, self[k].z with self[0] = min_p and self[1] = max_p.
BoxPoints(bb) ==
    LET at(i) == IF i = 0 THEN bb.min_p ELSE bb.max_p
    IN  [n \in 1 .. 8 |->
            << at((n - 1) \div 4)[1], at(((n - 1) \div 2) % 2)[2],
               at((n - 1) % 2)[3] >>]

\* The fold of AABB::transform over points[k..] from (min_p, max_p).
RECURSIVE FoldMinMax(_, _, _, _)
FoldMinMax(points, k, min_p, max_p) ==
    IF k > Len(points) THEN AABB(min_p, max_p)
    ELSE FoldMinMax(points, k + 1, VMin(min_p, points[k]),
                    VMax(max_p, points[k]))

\* Mutant of AabbTransformBy: only min_p and max_p are transformed.
AabbTransformTwoCorners(bb, m) ==
    AABB(TransformPoint(m, bb.min_p), TransformPoint(m, bb.max_p))

\* AABB::transform.
AabbTransformBy(bb, m) ==
    LET points == BoxPoints(bb)
    IN  FoldMinMax([n \in 1 .. 8 |-> TransformPoint(m, points[n])], 1,
                   VInfinity, VNegInfinity)

Boxes ==
    { AABB(<< -1, -1, -1 >>, << 1, 1, 1 >>),
      AABB(<< 0, 0, 0 >>, << 1, 2, 3 >>),
      AABB(<< -1, 0, 2 >>, << -1, 3, 2 >>) }

Rotates == { << 0, 0, 0 >>, << 1, 0, 0 >>, << 0, 1, 0 >>, << 0, 0, 1 >>,
             << 1, 2, 3 >> }

Scales == { << 1, 1, 1 >>, << 2, 2, 2 >>, << -1, 2, 1 >>, << 1, -2, -3 >> }

InitTransform ==
    /\ RendererUnused
    /\ \E bb \in Boxes : \E translate \in Translates :
       \E rotate \in Rotates : \E scale \in Scales :
          calc = [fn |-> "transform", stage |-> "input", bb |-> bb,
                  translate |-> translate, rotate |-> rotate,
                  scale |-> scale, result |-> bb]

TransformCall ==
    /\ calc.fn = "transform" /\ calc.stage = "input"
    /\ calc' = [calc EXCEPT
          !.result = AabbTransformBy(calc.bb,
                        DirectTransform(calc.translate, calc.rotate,
                                        calc.scale)),
          !.stage = "done"]
    /\ UNCHANGED rvars

NextTransform == TransformCall

SpecTransform == InitTransform /\ [][NextTransform]_vars

\* ====================================================== BvhNode::new, by call
\* The recursion of BvhNode::new as its call stack, newest frame first.  A
\* frame holds the length n of its list and where the call stands: "enter",
\* "left" (the call for shapes.drain(..n / 2) is running), "right" (the call
\* for the rest is running) or "return".  The thread's stack holds MaxStack
\* frames.

\* Scene::new passes a list of at most MaxList shapes.
MaxList == 12

\* The stack overflows beyond MaxStack frames.
MaxStack == 8

Frame(n, at) == [n |-> n, at |-> at]

\* Scene::new: BvhNode::new(shapes).
InitBvhNew ==
    /\ RendererUnused
    /\ \E n \in 0 .. MaxList :
          calc = [fn |-> "bvh_new", pc |-> "running", len |-> n,
                  stack |-> << Frame(n, "enter") >>]

\* push a frame, or overflow the stack.
Call(stack, n) ==
    IF Len(stack) < MaxStack
    THEN [calc EXCEPT !.stack = << Frame(n, "enter") >> \o stack]
    ELSE [calc EXCEPT !.pc = "overflow", !.stack = stack]

\* The newest call reaches `let (left, right) = if n == 1 .. else if n == 2
\* .. else ..`: the leaf cases return, the other makes the call for the
\* first n / 2 shapes.
BvhNewEnter ==
    /\ calc.fn = "bvh_new" /\ calc.pc = "running"
    /\ calc.stack # << >> /\ Head(calc.stack).at = "enter"
    /\ LET n == Head(calc.stack).n
       IN  calc' = IF n = 1 \/ n = 2
                   THEN [calc EXCEPT !.stack[1].at = "return"]
                   ELSE Call([calc.stack EXCEPT ![1].at = "left"], n \div 2)
    /\ UNCHANGED rvars

\* The newest call returns: its caller goes on with the call for the rest
\* of its list, or builds its node.
BvhNewReturn ==
    /\ calc.fn = "bvh_new" /\ calc.pc = "running"
    /\ calc.stack # << >> /\ Head(calc.stack).at = "return"
    /\ LET rest == Tail(calc.stack)
       IN  calc' = IF rest = << >>
                   THEN [calc EXCEPT !.stack = rest, !.pc = "returned"]
                   ELSE IF Head(rest).at = "left"
                   THEN Call([rest EXCEPT ![1].at = "right"],
                             Head(rest).n - Head(rest).n \div 2)
                   ELSE [calc EXCEPT !.stack = [rest EXCEPT ![1].at = "return"]]
    /\ UNCHANGED rvars

NextBvhNew == BvhNewEnter \/ BvhNewReturn

SpecBvhNew == InitBvhNew /\ [][NextBvhNew]_vars

\* =============================================================== scene lock
\* The RwLock of the shared scene.  Every worker thread of new_worker_thread
\* takes the read lock once, before its loop: `let world =
\* &*world.read().unwrap();` keeps the guard for the whole closure.  The host
\* starts renders, observes their acknowledgements, and between renders may
\* ask for the write lock.  The dispatcher thread of a render sends LockChunks
\* batches and then one sentinel per worker.

\* The pool whose lock is followed has LockThreads workers.
LockThreads == 2

\* A render sends LockChunks batches.
LockChunks == 2

LockWorkers == 1 .. LockThreads

\* ThreadPoolRenderer::new: the workers are spawned; nobody holds the lock.
\* to_send and to_end are the batches and sentinels the dispatcher thread
\* has still to send, chunks and nones those in the input channel.
InitLock ==
    /\ RendererUnused
    /\ calc = [fn |-> "lock", host |-> "idle", stopped |-> FALSE,
               wpc |-> [w \in LockWorkers |-> "spawned"],
               readers |-> { }, writer |-> FALSE, mutated |-> FALSE,
               to_send |-> 0, to_end |-> 0,
               chunks |-> 0, nones |-> 0, acks |-> 0]

\* world.read().unwrap() of worker w: granted while no writer holds the lock;
\* the guard lives until the closure ends.
LockWorkerRead(w) ==
    /\ calc.fn = "lock" /\ calc.wpc[w] = "spawned"
    /\ ~calc.writer
    /\ calc' = [calc EXCEPT !.wpc[w] = "recv", !.readers = @ \cup { w }]
    /\ UNCHANGED rvars

\* recv() returns Some(v).
LockWorkerRecv(w) ==
    /\ calc.fn = "lock" /\ calc.wpc[w] = "recv"
    /\ calc.chunks > 0
    /\ calc' = [calc EXCEPT !.chunks = @ - 1, !.wpc[w] = "tracing"]
    /\ UNCHANGED rvars

\* The batch is traced through world and the result sent.
LockWorkerTrace(w) ==
    /\ calc.fn = "lock" /\ calc.wpc[w] = "tracing"
    /\ calc' = [calc EXCEPT !.wpc[w] = "recv"]
    /\ UNCHANGED rvars

\* recv() returns None: the worker acknowledges and parks in cvar.wait.
LockWorkerPark(w) ==
    /\ calc.fn = "lock" /\ calc.wpc[w] = "recv"
    /\ calc.chunks = 0 /\ calc.nones > 0
    /\ calc' = [calc EXCEPT !.nones = @ - 1, !.acks = @ + 1,
                            !.wpc[w] = "parked"]
    /\ UNCHANGED rvars

\* The dispatcher thread sends its next message: a batch, or, after the
\* batches, a sentinel.
LockDispatch ==
    /\ calc.fn = "lock"
    /\ calc.to_send > 0 \/ calc.to_end > 0
    /\ calc' = IF calc.to_send > 0
               THEN [calc EXCEPT !.to_send = @ - 1, !.chunks = @ + 1]
               ELSE [calc EXCEPT !.to_end = @ - 1, !.nones = @ + 1]
    /\ UNCHANGED rvars

\* start_rendering: the dispatcher thread is spawned, and notify_all wakes
\* the parked workers.
LockStart ==
    /\ calc.fn = "lock" /\ calc.host = "idle"
    /\ calc' = [calc EXCEPT
          !.host = "rendering", !.stopped = FALSE,
          !.to_send = LockChunks, !.to_end = LockThreads, !.acks = 0,
          !.wpc = [w \in LockWorkers |->
                     IF calc.wpc[w] = "parked" THEN "recv" ELSE calc.wpc[w]]]
    /\ UNCHANGED rvars

\* stop_rendering, once the render's acknowledgements were all observed.
LockStop ==
    /\ calc.fn = "lock" /\ calc.host = "rendering"
    /\ calc.acks = LockThreads
    /\ calc' = [calc EXCEPT !.host = "idle", !.stopped = TRUE]
    /\ UNCHANGED rvars

\* The host asks for the write lock of the scene.
LockWriteRequest ==
    /\ calc.fn = "lock" /\ calc.host = "idle"
    /\ calc' = [calc EXCEPT !.host = "write_wait"]
    /\ UNCHANGED rvars

\* RwLock::write is granted when there is no reader.
LockWriteGranted ==
    /\ calc.fn = "lock" /\ calc.host = "write_wait"
    /\ calc.readers = { }
    /\ calc' = [calc EXCEPT !.host = "writing", !.writer = TRUE]
    /\ UNCHANGED rvars

\* The scene is mutated and the write guard dropped.
LockWriteRelease ==
    /\ calc.fn = "lock" /\ calc.host = "writing"
    /\ calc' = [calc EXCEPT !.host = "idle", !.writer = FALSE,
                            !.mutated = TRUE]
    /\ UNCHANGED rvars

NextLock ==
    \/ \E w \in LockWorkers : LockWorkerRead(w)
    \/ \E w \in LockWorkers : LockWorkerRecv(w)
    \/ \E w \in LockWorkers : LockWorkerTrace(w)
    \/ \E w \in LockWorkers : LockWorkerPark(w)
    \/ LockDispatch
    \/ LockStart
    \/ LockStop
    \/ LockWriteRequest
    \/ LockWriteGranted
    \/ LockWriteRelease

SpecLock == InitLock /\ [][NextLock]_vars

\* Every thread that can take a step eventually takes one.
SpecLockFair == SpecLock /\ WF_vars(NextLock)

\* ========================================================== spawn per call
\* renderer/threaded.rs render_to (old/threaded.rs render_step is the same
\* code): every call makes fresh channels, spawns thread_number workers and
\* one dispatcher, and collects the results.  A batch is the number of its
\* pixels; an output message is that number, or NoneOut for None.  Each
\* channel is followed up to MaxQueue messages.

\* The renderer of the spawn-per-call variant has SpawnThreads workers.
SpawnThreads == 2

SpawnWorkers == 1 .. SpawnThreads

SpawnImages == { << 2, 2 >>, << 4, 4 >>, << 4, 6 >> }

NoneOut == 0

\* render_to before its receive loop: channels, camera image, workers and
\* dispatcher spawned.  open says that a Sender of the input channel exists.
InitSpawn ==
    /\ RendererUnused
    /\ \E img \in SpawnImages :
          calc = [fn |-> "spawn", pc |-> "loop",
                  pixels |-> img[1] * img[2],
                  chunk_size |-> ChunkSize(img[1], img[2], SpawnThreads),
                  dpc |-> "spawned", pos |-> 0, open |-> TRUE,
                  input |-> << >>, output |-> << >>,
                  wpc |-> [w \in SpawnWorkers |-> "recv"],
                  batch |-> [w \in SpawnWorkers |-> 0],
                  finished |-> 0, written |-> 0]

\* The dispatcher's closure up to rays.chunks(chunk_size), which panics on
\* size 0; the unwinding drops the sender.
SpawnDispatcherBuild ==
    /\ calc.fn = "spawn" /\ calc.dpc = "spawned"
    /\ calc' = IF calc.chunk_size = 0
               THEN [calc EXCEPT !.dpc = "panicked", !.open = FALSE]
               ELSE [calc EXCEPT !.dpc = "chunks"]
    /\ UNCHANGED rvars

\* input_sender.send(chunk_vec).
SpawnDispatcherSend ==
    /\ calc.fn = "spawn" /\ calc.dpc = "chunks"
    /\ Len(calc.input) < MaxQueue
    /\ LET len  == Min(calc.chunk_size, calc.pixels - calc.pos)
           npos == calc.pos + len
       IN  calc' = [calc EXCEPT
              !.input = Append(@, len), !.pos = npos,
              !.dpc = IF npos = calc.pixels THEN "drop" ELSE "chunks"]
    /\ UNCHANGED rvars

\* drop(input_sender) and the end of the closure.
SpawnDispatcherDrop ==
    /\ calc.fn = "spawn" /\ calc.dpc = "drop"
    /\ calc' = [calc EXCEPT !.dpc = "done", !.open = FALSE]
    /\ UNCHANGED rvars

\* input_receiver.lock().unwrap().recv(): a batch, or Err once the channel
\* is empty and has no sender.
SpawnWorkerRecv(w) ==
    /\ calc.fn = "spawn" /\ calc.wpc[w] = "recv"
    /\ calc.input # << >> \/ ~calc.open
    /\ calc' = IF calc.input # << >>
               THEN [calc EXCEPT !.input = Tail(@),
                                 !.batch[w] = Head(calc.input),
                                 !.wpc[w] = "tracing"]
               ELSE [calc EXCEPT !.wpc[w] = "closing"]
    /\ UNCHANGED rvars

\* The batch is traced and Some(result) sent.
SpawnWorkerSend(w) ==
    /\ calc.fn = "spawn" /\ calc.wpc[w] = "tracing"
    /\ Len(calc.output) < MaxQueue
    /\ calc' = [calc EXCEPT !.output = Append(@, calc.batch[w]),
                            !.batch[w] = 0, !.wpc[w] = "recv"]
    /\ UNCHANGED rvars

\* The Err arm: send(None).
SpawnWorkerNone(w) ==
    /\ calc.fn = "spawn" /\ calc.wpc[w] = "closing"
    /\ Len(calc.output) < MaxQueue
    /\ calc' = [calc EXCEPT !.output = Append(@, NoneOut),
                            !.wpc[w] = "sent"]
    /\ UNCHANGED rvars

\* break, and the worker's closure ends.
SpawnWorkerExit(w) ==
    /\ calc.fn = "spawn" /\ calc.wpc[w] = "sent"
    /\ calc' = [calc EXCEPT !.wpc[w] = "exited"]
    /\ UNCHANGED rvars

\* One iteration of `for results in output_receiver`.
SpawnHostRecv ==
    /\ calc.fn = "spawn" /\ calc.pc = "loop"
    /\ calc.output # << >>
    /\ LET msg == Head(calc.output)
       IN  calc' = IF msg = NoneOut
                   THEN [calc EXCEPT
                           !.output = Tail(@), !.finished = @ + 1,
                           !.pc = IF calc.finished + 1 = SpawnThreads
                                  THEN "join" ELSE "loop"]
                   ELSE [calc EXCEPT !.output = Tail(@),
                                     !.written = @ + msg]
    /\ UNCHANGED rvars

\* dispather.join().unwrap(): the call returns, or panics when the
\* dispatcher thread panicked.
SpawnHostJoin ==
    /\ calc.fn = "spawn" /\ calc.pc = "join"
    /\ calc.dpc \in { "done", "panicked" }
    /\ calc' = [calc EXCEPT !.pc = IF calc.dpc = "done" THEN "returned"
                                   ELSE "panicked"]
    /\ UNCHANGED rvars

NextSpawn ==
    \/ SpawnDispatcherBuild
    \/ SpawnDispatcherSend
    \/ SpawnDispatcherDrop
    \/ \E w \in SpawnWorkers : SpawnWorkerRecv(w)
    \/ \E w \in SpawnWorkers : SpawnWorkerSend(w)
    \/ \E w \in SpawnWorkers : SpawnWorkerNone(w)
    \/ \E w \in SpawnWorkers : SpawnWorkerExit(w)
    \/ SpawnHostRecv
    \/ SpawnHostJoin

SpecSpawn == InitSpawn /\ [][NextSpawn]_vars

\* ================================================================ properties
\* Pixel indices of the image render r was started with.
ImagePixels(r) == 0 .. (dispatcher[r].width * dispatcher[r].height - 1)

NoWorkerDead == \A w \in Workers : worker[w].pc # "dead"

\* In a step, the messages the step took from the output channel.
Drained == SubSeq(output, 1, Len(output) - Len(output'))

\* C1: a render started on an idle renderer: when render_step returns true,
\* every pixel index of the image has been written exactly once since the
\* start_rendering.
C1_DispatcherCompleteness ==
    (cur > 0 /\ hist.mode = "idle" /\ hist.ret /\ NoWorkerDead)
        => \A i \in ImagePixels(cur) : hist.writes[i] = 1

\* C2: in a render started after render_step returned true for the previous
\* one, once start_rendering has notified, no worker is parked (or about to
\* park) on an acknowledgement of an earlier render: every worker that
\* acknowledged the previous render is receiving again.
C2_WorkersResume ==
    \A w \in Workers :
        (cur > 1 /\ hist.mode = "idle" /\ hostpc = "idle"
            /\ worker[w].pc \in {"lock", "wait"})
        => worker[w].render = cur

\* C3: render B started by stop_rendering + start_rendering while render A
\* was in flight: when render_step returns true, every pixel of B's image
\* holds a value computed for render B.
C3_Restart ==
    (cur > 1 /\ hist.mode = "restart" /\ hist.ret /\ NoWorkerDead
        /\ dispatcher[cur].chunk_size > 0)
    => \A i \in ImagePixels(cur) : buffer[i] = cur

\* C4: every worker receives exactly one sentinel of a render: never two of
\* the same render, one each when the render has completed, and never
\* while a batch of that render is still unsent or in the input channel.
C4_OneSentinelEach ==
    /\ ~hist.early
    /\ \A w \in Workers : \A r \in Renders : hist.sentinels[w][r] <= 1
    /\ (cur > 0 /\ hist.mode = "idle" /\ hist.ret /\ NoWorkerDead)
         => \A w \in 1 .. thread_number : hist.sentinels[w][cur] = 1

\* C5: for every image and worker count the batches of a render partition
\* the index set (once the dispatcher thread is past its chunk loop, every
\* index of the image was sent in exactly one batch, exactly once), and no
\* index gets two results in one render.
C5_Partition ==
    \A r \in 1 .. cur :
        /\ dispatcher[r].pc \in {"sentinels", "done", "panicked"}
             => \A i \in ImagePixels(r) : hist.sent[r][i] = 1
        /\ \A i \in Pixels : hist.sent[r][i] <= 1 /\ hist.traced[r][i] <= 1

\* C6: after stop_rendering and before the next start_rendering, no
\* render_step call writes a result into the buffer.
C6_StopDiscards == [][hist.stopped => buffer' = buffer]_vars

\* C7: after stop_rendering the dispatcher thread sends no further batch,
\* and in a render started by stop + start no acknowledgement of an earlier
\* render is counted by render_step.
C7_Cooperative ==
    [][ /\ hist.stopped =>
            \A r \in Renders : dispatcher'[r].pos = dispatcher[r].pos
        /\ (hist.mode = "restart" /\ Len(output') < Len(output)) =>
            \A k \in 1 .. Len(Drained) :
                Drained[k].tag = "None" => Drained[k].render = cur
      ]_vars

\* C8: a render in which a worker thread stopped still completes: when the
\* dispatcher threads have ended, the output channel is drained and no
\* worker can take a step, render_step has returned true.
C8_WorkerFailure ==
    (/\ cur > 0
     /\ \E w \in Workers : worker[w].pc = "dead"
     /\ dispatcher[cur].pc = "done"
     /\ output = << >>
     /\ \A w \in Workers : ~ENABLED WorkerStep(w))
    => hist.completed

\* C9: a start_rendering with image width or height 0, or on a renderer of
\* depth 0, sends no batch and no sentinel.
C9_ConfigRejected ==
    \A r \in 1 .. cur :
        (dispatcher[r].width = 0 \/ dispatcher[r].height = 0 \/ depth = 0)
        => /\ dispatcher[r].pos = 0
           /\ dispatcher[r].nones = 0
           /\ \A i \in Pixels : hist.sent[r][i] = 0

\* C10: the buffer changes only in a render_step of the controller (no
\* worker, dispatcher or channel-input change in that step), and only at
\* indices of results that step took from the output channel.
C10_BufferOnlyRenderStep ==
    [][ \A i \in Pixels :
          buffer'[i] # buffer[i] =>
            /\ hostpc = "idle" /\ hostpc' = "idle"
            /\ worker' = worker /\ dispatcher' = dispatcher /\ input' = input
            /\ \E k \in 1 .. Len(Drained) :
                 /\ Drained[k].tag = "Some"
                 /\ \E j \in 1 .. Len(Drained[k].ixs) : Drained[k].ixs[j] = i
      ]_vars

\* C10 witness: in the second render some pixel already holds its new
\* colour while another still holds the colour of the first render.
C10_Witness ==
    /\ cur = 2
    /\ \E i \in Pixels : \E j \in Pixels : buffer[i] = 2 /\ buffer[j] = 1

\* C11: every batch of a render is generated from the one camera state its
\* ray caster was built from, and the width that maps (x, y) to the pixel
\* index is the width of that caster's image: whenever a dispatcher thread
\* sends a batch, its caster still holds the pose it was built with and the
\* caster's width equals the width start_rendering passed.
C11_SingleCameraState ==
    [][ \A r \in Renders :
          dispatcher'[r].pos > dispatcher[r].pos =>
            /\ dispatcher'[r].rays.pose = dispatcher[r].rays.pose
            /\ dispatcher[r].rays.width = dispatcher[r].width
      ]_vars

\* C12: in the window loop every start_rendering comes straight after a
\* stop_rendering (no other renderer call in between), none is issued while
\* a render is in flight (after a start and before a render_step returned
\* true), and a redraw requested while a render is in flight stays
\* requested (is_redraw is cleared only by the stop/start branch) and makes
\* the first render call after the render has finished take that branch.
C12_HostLoop ==
    [][ /\ cur' = cur + 1 =>
              /\ host.last = "stop"
              /\ cur = 0 \/ hist.completed
        /\ host.deferred => host.is_redraw
        /\ (host.is_redraw /\ ~host'.is_redraw) => host'.last = "stop"
        /\ (/\ hostpc = "idle" /\ hostpc' # "idle"
            /\ host.deferred /\ host.is_finished) => hostpc' = "start"
      ]_vars

\* C12 witness: the second start_rendering of a behaviour, made for a redraw
\* that was requested while the first render was in flight.
C12_Witness ==
    /\ cur = 2
    /\ host.served
    /\ hostpc = "step"

\* C13: the tree built from the shapes and a linear scan of the same shapes
\* answer every query alike: both miss, or both hit at the same distance,
\* the same shape (material) and the same point.
C13_BvhEquivalence ==
    (calc.fn = "bvh" /\ calc.stage = "queried")
        => calc.bvh_hit = calc.scan_hit

\* The parameters at which the ray crosses the surface of a cube of the
\* scene: where it enters the cube and where it leaves it.
Crossings(cube, ray) ==
    LET lo      == VSub(VAdd(cube.min_p, cube.translate), ray.origin)
        hi      == VSub(VAdd(cube.max_p, cube.translate), ray.origin)
        t_lower == VDivide(lo, ray.direction)
        t_upper == VDivide(hi, ray.direction)
        enter   == MaxComponent(VMin(t_lower, t_upper))
        leave   == MinComponent(VMax(t_lower, t_upper))
    IN  IF enter <= leave THEN { enter, leave } ELSE {}

\* C14: a hit returned for a query (by a cube, a ShapeCollection or a
\* BvhNode) has min_t < distance <= max_t, and no shape of the scene is
\* crossed by the ray at a smaller parameter above min_t.
C14_HitInRange ==
    (calc.fn = "bvh" /\ calc.stage = "queried") =>
        \A hit \in { calc.bvh_hit, calc.scan_hit } :
            hit.some =>
                /\ calc.min_t < hit.distance
                /\ hit.distance <= calc.max_t
                /\ \A k \in 1 .. Len(calc.shapes) :
                     \A t \in Crossings(calc.shapes[k], calc.ray) :
                        ~(calc.min_t < t /\ t < hit.distance)

\* The leaf shapes below a node, and the nodes of a tree.
RECURSIVE LeavesOf(_)
LeavesOf(shape) ==
    IF shape.kind = "none" THEN {}
    ELSE IF shape.kind = "cube" THEN { shape }
    ELSE LeavesOf(shape.left) \cup LeavesOf(shape.right)

RECURSIVE NodesOf(_)
NodesOf(shape) ==
    IF shape.kind = "bvh"
    THEN { shape } \cup NodesOf(shape.left) \cup NodesOf(shape.right)
    ELSE {}

Contains(outer, inner) ==
    \A c \in 1 .. 3 : /\ outer.min_p[c] <= inner.min_p[c]
                      /\ inner.max_p[c] <= outer.max_p[c]

\* C15: in a tree built by BvhNode::new, the box of every node, at every
\* depth, contains the bounding box of every leaf shape below the node.
C15_AabbContainment ==
    (calc.fn = "bvh" /\ calc.stage # "input") =>
        \A node \in NodesOf(calc.tree) :
            \A leaf \in LeavesOf(node) :
                Contains(node.bounding_box, GetBoundingBox(leaf))

\* C15 witness: a tree of three shapes with an inner node whose box is
\* smaller than the root's.
C15_Witness ==
    /\ calc.fn = "bvh" /\ calc.stage = "built"
    /\ Len(calc.shapes) = 3
    /\ calc.tree.right.kind = "bvh"
    /\ calc.tree.right.bounding_box # calc.tree.bounding_box
    /\ calc.tree.left.bounding_box # calc.tree.bounding_box

\* C16: ray_color with depth 0 returns black, whether the ray hits a shape
\* or misses everything.
C16_DepthZeroBlack ==
    (calc.fn = "ray_color" /\ calc.stage = "done" /\ calc.depth = 0)
        => calc.color = Black

\* C17: the caster of a w x h image yields one item per pixel in row-major
\* order (the k-th item is pixel (k mod w, k div w)), every item carries
\* samples_number rays, len() is w * h minus the number of items yielded, and
\* the caster ends after exactly w * h items, every pixel yielded once.
C17_CasterYield ==
    calc.fn = "caster" =>
        /\ \A k \in 1 .. Len(calc.items) :
              /\ << calc.items[k].x, calc.items[k].y >>
                    = CasterItem(k - 1, calc.width)
              /\ calc.items[k].x \in 0 .. calc.width - 1
              /\ calc.items[k].y \in 0 .. calc.height - 1
              /\ Len(calc.items[k].samples) = calc.samples_number
        /\ ProductSizeHint(calc.coords_iter, calc.height, calc.width)
              = CasterLen(calc.width, calc.height) - Len(calc.items)
        /\ calc.ended =>
              /\ Len(calc.items) = calc.width * calc.height
              /\ { << calc.items[k].x, calc.items[k].y >> :
                      k \in 1 .. Len(calc.items) }
                    = (0 .. calc.width - 1) \X (0 .. calc.height - 1)

C17_Witness ==
    /\ calc.fn = "caster" /\ calc.ended
    /\ calc.width = 3 /\ calc.height = 2 /\ calc.samples_number = 2
    /\ Len(calc.items) = 6

\* x = n / m satisfies a * x^2 + 2 * half_b * x + c = 0.
IsRoot(a, half_b, c, x) ==
    a * x[1] * x[1] + 2 * half_b * x[1] * x[2] + c * x[2] * x[2] = 0

\* C18: solve_quadratic_equation returns None exactly when
\* half_b^2 - a * c < 0, and otherwise two values that are both roots of
\* a * x^2 + 2 * half_b * x + c.
C18_QuadraticRoots ==
    (calc.fn = "equation" /\ calc.stage = "done") =>
        /\ ~calc.roots.some <=> calc.half_b * calc.half_b - calc.a * calc.c < 0
        /\ calc.roots.some =>
              /\ IsRoot(calc.a, calc.half_b, calc.c, calc.roots.x1)
              /\ IsRoot(calc.a, calc.half_b, calc.c, calc.roots.x2)

\* C19: the pixel ImageTexture::value reads is inside the image for every
\* (u, v): 0 <= x < width and 0 <= y < height.
C19_TextureInBounds ==
    (calc.fn = "texture" /\ calc.stage = "done") =>
        /\ 0 <= calc.pixel.x /\ calc.pixel.x < calc.width
        /\ 0 <= calc.pixel.y /\ calc.pixel.y < calc.height

\* C20: after any rotate_vertical and rotate_horizontal calls theta is
\* strictly between 0 and PI, the view direction is not parallel to world-up,
\* and phi is in [0, 2 * PI].
C20_OrbitAngles ==
    calc.fn = "orbit" =>
        /\ 0 < calc.theta /\ calc.theta < Pi
        /\ ~calc.dir_parallel_up
        /\ 0 <= calc.phi /\ calc.phi <= 2 * Pi

\* The real roots of the equation of the shape, as fractions.
RealRoots ==
    IF calc.shape = "sphere"
    THEN LET d == calc.half_b * calc.half_b - calc.a * calc.c
         IN  IF d < 0 THEN { }
             ELSE { << -calc.half_b - Sqrt(d), calc.a >>,
                    << -calc.half_b + Sqrt(d), calc.a >> }
    ELSE { << calc.roots[k].re, 1 >> : k \in { i \in 1 .. 4 : calc.roots[i].real } }

RootsInRange ==
    { x \in RealRoots : FracAbove(x, calc.min_t) /\ ~FracAbove(x, calc.max_t) }

\* C21: the reported distance is the least real root in (min_t, max_t], and
\* no hit is reported exactly when there is no real root in that interval.
C21_RootSelection ==
    (calc.fn = "roots" /\ calc.stage = "done") =>
        /\ calc.hit.some <=> RootsInRange # { }
        /\ calc.hit.some =>
              \E x \in RootsInRange :
                 /\ x[1] * calc.hit.x[2] = calc.hit.x[1] * x[2]
                 /\ \A y \in RootsInRange : y[1] * x[2] >= x[1] * y[2]

\* C22: at a BvhNode::new call the sort axis can be any of x, y and z
\* (0, 1 and 2), and a list of n >= 3 shapes is split at floor(n / 2).
C22_AllAxesDrawn ==
    (calc.fn = "bvh" /\ calc.stage # "input") =>
        /\ Axes = { 0, 1, 2 }
        /\ Len(calc.shapes) >= 3 =>
              Cardinality(LeavesOf(calc.tree.left)) = Len(calc.shapes) \div 2

\* C23: in render_step_to, is_started is true from the end of the first
\* pass after reset() until the next reset(); the first pass stores its
\* colours and every later pass adds its colours to the buffer.
C23_ProgressiveAccumulates ==
    [][ calc.fn = "step" =>
          /\ calc'.completed > 0 => calc'.is_started
          /\ \A i \in calc.pending \ calc'.pending :
                \E color \in StepColors :
                   calc'.buffer[i] = IF calc.completed = 0 THEN color
                                     ELSE calc.buffer[i] + color ]_vars

\* The octave sum: the sum over i in k .. d - 1 of 2^-i * |noise(2^i * p)|.
RECURSIVE OctaveSum(_, _, _, _)
OctaveSum(table, p, k, d) ==
    IF k >= d THEN 0
    ELSE (WeightOne \div 2 ^ k) * Abs(Noise(table, 2 ^ k * p))
            + OctaveSum(table, p, k + 1, d)

\* C24: turb(p, depth) is the sum over the octaves i < depth of
\* 2^-i * |noise(2^i * p)|.
C24_TurbOctaveSum ==
    (calc.fn = "turb" /\ calc.stage = "done") =>
        calc.value = OctaveSum(calc.table, calc.p, 0, calc.depth)

\* The images of the eight corners of the box under its transform.
CornerImages ==
    { TransformPoint(DirectTransform(calc.translate, calc.rotate, calc.scale),
                     << x, y, z >>) :
        x \in { calc.bb.min_p[1], calc.bb.max_p[1] },
        y \in { calc.bb.min_p[2], calc.bb.max_p[2] },
        z \in { calc.bb.min_p[3], calc.bb.max_p[3] } }

\* C25: AABB::transform returns the box of the component-wise minimum and
\* maximum of the images of the eight corners: min_p <= max_p on every
\* component and every corner's image is inside the box.
C25_TransformBox ==
    (calc.fn = "transform" /\ calc.stage = "done") =>
        \A c \in 1 .. 3 :
           /\ calc.result.min_p[c] <= calc.result.max_p[c]
           /\ \A q \in CornerImages :
                 calc.result.min_p[c] <= q[c] /\ q[c] <= calc.result.max_p[c]
           /\ \E q \in CornerImages : calc.result.min_p[c] = q[c]
           /\ \E q \in CornerImages : calc.result.max_p[c] = q[c]

C25_Witness ==
    /\ calc.fn = "transform" /\ calc.stage = "done"
    /\ calc.rotate = << 1, 2, 3 >> /\ calc.scale = << 1, -2, -3 >>
    /\ calc.translate = << 2, 0, 0 >>
    /\ calc.bb = AABB(<< 0, 0, 0 >>, << 1, 2, 3 >>)
    /\ calc.result # calc.bb

\* C26: every recursive call of BvhNode::new is made on a strictly shorter
\* list than its caller's, and the recursion does not run out of stack.
C26_BvhNewTerminates ==
    [][ calc.fn = "bvh_new" =>
          /\ calc'.pc # "overflow"
          /\ Len(calc'.stack) > 1 =>
                calc'.stack[1].n < calc'.stack[2].n ]_vars

\* The leaf shapes below a shape, left to right.
RECURSIVE LeafList(_)
LeafList(shape) ==
    IF shape.kind = "none" THEN << >>
    ELSE IF shape.kind = "bvh"
         THEN LeafList(shape.left) \o LeafList(shape.right)
         ELSE << shape >>

\* C27: the tree BvhNode::new builds for n >= 1 shapes has exactly n leaf
\* shapes, the input shapes each once, and a node without a right child has
\* a single shape below it.
C27_LeavesAreShapes ==
    (calc.fn = "bvh" /\ calc.stage # "input") =>
        LET leaves == LeafList(calc.tree)
        IN  /\ Len(leaves) = Len(calc.shapes)
            /\ \A k \in 1 .. Len(calc.shapes) :
                  Cardinality({ i \in 1 .. Len(leaves) :
                                   leaves[i] = calc.shapes[k] }) = 1
            /\ \A node \in NodesOf(calc.tree) :
                  node.right.kind = "none" =>
                     /\ node.left.kind = "cube"
                     /\ node = calc.tree => Len(calc.shapes) = 1

C27_Witness ==
    /\ calc.fn = "bvh" /\ calc.stage = "built"
    /\ Len(calc.shapes) = 3
    /\ calc.tree.left.kind = "bvh" /\ calc.tree.left.right.kind = "none"
    /\ calc.tree.right.kind = "bvh" /\ calc.tree.right.right.kind = "cube"

\* C28: for an image of width and height at least 1 and at least one worker
\* the dispatcher's chunk size is at least 1 and the dispatcher thread does
\* not panic.
C28_ChunkSizePositive ==
    \A r \in 1 .. cur :
        (dispatcher[r].width >= 1 /\ dispatcher[r].height >= 1
            /\ dispatcher[r].threads_num >= 1)
        => /\ dispatcher[r].chunk_size >= 1
           /\ dispatcher[r].pc # "panicked"

\* C29: no worker holds the read lock of the scene while it is parked
\* between renders, so that a write lock asked for after stop_rendering and
\* the render's acknowledgements can be granted.
C29_ParkedWithoutLock ==
    calc.fn = "lock" =>
        /\ \A w \in LockWorkers : calc.wpc[w] = "parked" => w \notin calc.readers
        /\ (calc.host = "write_wait" /\ calc.stopped) => calc.readers = { }

\* C30: in the spawn-per-call variant a worker sends its None only once the
\* input channel is closed and drained; the call does not panic, and when it
\* has returned all w * h pixels are written, every worker thread has exited
\* and the dispatcher has ended.
C30_SpawnPerCall ==
    calc.fn = "spawn" =>
        /\ \A w \in SpawnWorkers :
              calc.wpc[w] = "closing" => (~calc.open /\ calc.input = << >>)
        /\ calc.pc # "panicked"
        /\ calc.pc = "returned" =>
              /\ calc.finished = SpawnThreads
              /\ calc.written = calc.pixels
              /\ \A w \in SpawnWorkers : calc.wpc[w] = "exited"
              /\ calc.dpc = "done"

====
